---------------------------- MODULE Spec2Model ----------------------------
(***************************************************************************)
(* A model of the sampling-and-rendering engine of mandybrot:              *)
(*   - Complex<T> arithmetic (src/src/complex.rs),                         *)
(*   - Fractal::sample and the 14 escape-time kinds (src/src/fractal.rs),  *)
(*   - Attractor::iterate (src/src/attractor.rs),                          *)
(*   - sample_area / multisample_area (src/src/sample.rs),                 *)
(*   - render_fractal / render_attractor and the inverse coordinate       *)
(*     mapper (src/src/render.rs).                                         *)
(*                                                                         *)
(* Numbers.  The float type T is a small binary format: a finite value is  *)
(* an integer count of units of 1/Prec (Prec = 2^FracBits), every          *)
(* operation rounds its exact result to the nearest unit (ties to even),   *)
(* a result beyond FMax overflows to an infinity, and the IEEE special     *)
(* values NaN, +Inf and -Inf behave as in IEEE 754 (x/0, Inf - Inf,        *)
(* comparisons with NaN false).  u32 is a machine word of WordBits bits:   *)
(* an overflowing +, * panics when the build has overflow checks (debug)   *)
(* and wraps when it has not (release); the build is an input.             *)
(***************************************************************************)
EXTENDS Integers, Sequences, FiniteSets, TLC

(***************************************************************************)
(* Bounds of the model.                                                    *)
(***************************************************************************)
FracBits == 4
WordBits == 3
MaxIter == 4
MaxRes == 2
MaxSamples == 3
MaxTraj == 2
MaxMapRes == 3
MaxPower == 4

Prec == 2 ^ FracBits
Word == 2 ^ WordBits
U32Max == Word - 1
FMax == 2 ^ 14

(***************************************************************************)
(* The float type T.                                                       *)
(***************************************************************************)
Fin(v) == <<0, v>>
PInf == <<1, 1>>
NInf == <<1, -1>>
NaN == <<2, 0>>

IsFin(a) == a[1] = 0
IsInf(a) == a[1] = 1
IsNaN(a) == a[1] = 2

Sgn(v) == IF v < 0 THEN -1 ELSE 1

\* n / d (d > 0) rounded to the nearest integer, ties to even
RoundPos(n, d) ==
    LET q == n \div d
        r == n - q * d
    IN  IF 2 * r < d THEN q
        ELSE IF 2 * r > d THEN q + 1
        ELSE IF q % 2 = 0 THEN q ELSE q + 1

RoundDiv(n, d) == IF d < 0 THEN RoundPos(-n, -d) ELSE RoundPos(n, d)

\* a finite result, or the infinity it overflows to
Finite(v) == IF v > FMax THEN PInf ELSE IF v < -FMax THEN NInf ELSE Fin(v)

FNeg(a) == <<a[1], -a[2]>>

FAdd(a, b) ==
    IF IsNaN(a) \/ IsNaN(b) THEN NaN
    ELSE IF IsInf(a) /\ IsInf(b) THEN (IF a[2] = b[2] THEN a ELSE NaN)
    ELSE IF IsInf(a) THEN a
    ELSE IF IsInf(b) THEN b
    ELSE Finite(a[2] + b[2])

FSub(a, b) == FAdd(a, FNeg(b))

FMul(a, b) ==
    IF IsNaN(a) \/ IsNaN(b) THEN NaN
    ELSE IF IsInf(a) \/ IsInf(b)
         THEN (IF a[2] = 0 \/ b[2] = 0 THEN NaN
               ELSE IF Sgn(a[2]) = Sgn(b[2]) THEN PInf ELSE NInf)
    ELSE Finite(RoundDiv(a[2] * b[2], Prec))

FDiv(a, b) ==
    IF IsNaN(a) \/ IsNaN(b) THEN NaN
    ELSE IF IsInf(a)
         THEN (IF IsInf(b) THEN NaN
               ELSE IF Sgn(a[2]) = Sgn(b[2]) THEN PInf ELSE NInf)
    ELSE IF IsInf(b) THEN Fin(0)
    ELSE IF b[2] = 0
         THEN (IF a[2] = 0 THEN NaN ELSE IF a[2] > 0 THEN PInf ELSE NInf)
    ELSE Finite(RoundDiv(a[2] * Prec, b[2]))

\* the order of the extended reals; every comparison with NaN is false
Key(a) == IF IsInf(a) THEN a[2] * (2 * FMax) ELSE a[2]
FLt(a, b) == ~IsNaN(a) /\ ~IsNaN(b) /\ Key(a) < Key(b)
FGe(a, b) == ~IsNaN(a) /\ ~IsNaN(b) /\ Key(a) >= Key(b)

FAbs(a) == <<a[1], IF a[2] < 0 THEN -a[2] ELSE a[2]>>

\* T::from(i) of an unsigned integer, T::from(0.5), T::one(), T::zero()
FromInt(i) == Finite(i * Prec)
Half == Fin(Prec \div 2)
One == FromInt(1)
Zero == FromInt(0)

\* Float::to_usize: the integer part of a finite non-negative value
ToUsize(a) == a[2] \div Prec

\* a literal num/den of the source, rounded to the format
Lit(num, den) == Fin(RoundDiv(num * Prec, den))

(***************************************************************************)
(* libm.  sin and cos by Bhaskara's rational approximation, exp by the    *)
(* Pade quotient and squaring, each rounded to the format; exact at 0.     *)
(***************************************************************************)
HalfPi == RoundDiv(355 * Prec, 226)
Pi == 2 * HalfPi

\* sin of y units, 0 <= y <= Pi
SinArc(y) == RoundDiv(16 * y * (Pi - y) * Prec, 5 * Pi * Pi - 4 * y * (Pi - y))

SinU(x) ==
    LET y == x % (2 * Pi)
    IN  IF y <= Pi THEN SinArc(y) ELSE -SinArc(y - Pi)

FSin(a) == IF IsFin(a) THEN Fin(SinU(a[2])) ELSE NaN
FCos(a) == IF IsFin(a) THEN Fin(SinU(a[2] + HalfPi)) ELSE NaN

RECURSIVE ExpU(_)
ExpU(x) ==
    IF 2 * x > Prec \/ 2 * x < -Prec
    THEN LET h == ExpU(RoundDiv(x, 2)) IN FMul(h, h)
    ELSE Finite(RoundDiv((2 * Prec + x) * Prec, 2 * Prec - x))

FExp(a) ==
    IF IsNaN(a) THEN NaN
    ELSE IF IsInf(a) THEN (IF a[2] > 0 THEN PInf ELSE Fin(0))
    ELSE IF a[2] > 16 * Prec THEN PInf
    ELSE IF a[2] < -16 * Prec THEN Fin(0)
    ELSE ExpU(a[2])

FSinh(a) == FDiv(FSub(FExp(a), FExp(FNeg(a))), FromInt(2))
FCosh(a) == FDiv(FAdd(FExp(a), FExp(FNeg(a))), FromInt(2))

(***************************************************************************)
(* Complex<T>  (src/src/complex.rs)                                        *)
(***************************************************************************)
Complex(real, imag) == [real |-> real, imag |-> imag]

add(self, other) ==
    Complex(FAdd(self.real, other.real), FAdd(self.imag, other.imag))

sub(self, other) ==
    Complex(FSub(self.real, other.real), FSub(self.imag, other.imag))

mul(self, other) ==
    Complex(FSub(FMul(self.real, other.real), FMul(self.imag, other.imag)),
            FAdd(FMul(self.real, other.imag), FMul(self.imag, other.real)))

div(self, other) ==
    LET den == FAdd(FMul(other.real, other.real), FMul(other.imag, other.imag))
    IN  Complex(FDiv(FAdd(FMul(self.real, other.real),
                          FMul(self.imag, other.imag)), den),
                FDiv(FSub(FMul(self.imag, other.real),
                          FMul(self.real, other.imag)), den))

norm_sqr(self) == FAdd(FMul(self.real, self.real), FMul(self.imag, self.imag))

RECURSIVE powi_loop(_, _, _)
powi_loop(result, self, left) ==
    IF left = 0 THEN result ELSE powi_loop(mul(result, self), self, left - 1)

\* (a loop that would multiply once too often: for _ in 0..n)
powi_inclusive(self, n) ==
    IF n = 0 THEN Complex(One, Zero) ELSE powi_loop(self, self, n)
powi(self, n) ==
    IF n = 0 THEN Complex(One, Zero) ELSE powi_loop(self, self, n - 1)


(***************************************************************************)
(* Fractal<T> and its escape-time kinds  (src/src/fractal.rs)              *)
(***************************************************************************)
Fractal(tag, c, power, epsilon, a, b, d) ==
    [tag |-> tag, c |-> c, power |-> power, epsilon |-> epsilon,
     a |-> a, b |-> b, d |-> d]

Origin == Complex(Zero, Zero)
Four == FromInt(4)

\* the locals of one sample call: z, z_old (phoenix), the counter n, the
\* last Newton step dz, and pc = "loop" until the function returns n; trace
\* is the history of the call: the state and the Newton step after every
\* executed loop body
Locals(z0) ==
    [z |-> z0, z_old |-> z0, n |-> 0, dz |-> Origin, pc |-> "loop",
     trace |-> << >>]

Visit(st, next_z, step) == Append(st.trace, [z |-> next_z, dz |-> step])

\* while z.norm_sqr() < four && n < max_iter
\* (a loop that would run one pass too many: n <= max_iter)
WhileEscapeLE(z0, n0, limit) == FLt(norm_sqr(z0), Four) /\ n0 <= limit
WhileEscape(z0, n0, limit) == FLt(norm_sqr(z0), Four) /\ n0 < limit

Advance(st, next_z) ==
    [st EXCEPT !.z = next_z, !.n = st.n + 1, !.trace = Visit(st, next_z, Origin)]
Return(st) == [st EXCEPT !.pc = "done"]

mandelbrot(st, c, limit) ==
    IF WhileEscape(st.z, st.n, limit)
    THEN Advance(st, add(mul(st.z, st.z), c))
    ELSE Return(st)

burning_ship(st, c, limit) ==
    IF WhileEscape(st.z, st.n, limit)
    THEN LET w == Complex(FAbs(st.z.real), FAbs(st.z.imag))
         IN  Advance(st, add(mul(w, w), c))
    ELSE Return(st)

julia(st, c, limit) ==
    IF WhileEscape(st.z, st.n, limit)
    THEN Advance(st, add(mul(st.z, st.z), c))
    ELSE Return(st)

tricorn(st, c, limit) ==
    IF WhileEscape(st.z, st.n, limit)
    THEN LET w == Complex(st.z.real, FNeg(st.z.imag))
         IN  Advance(st, add(mul(w, w), c))
    ELSE Return(st)

multibrot(st, c, power, limit) ==
    IF WhileEscape(st.z, st.n, limit)
    THEN Advance(st, add(powi(st.z, power), c))
    ELSE Return(st)

\* if dz.norm_sqr() < epsilon { break; }
\* (a test that would also stop at equality: <= epsilon)
ConvergedLE(dz, epsilon) == ~IsNaN(epsilon) /\ ~FLt(epsilon, norm_sqr(dz)) /\ ~IsNaN(norm_sqr(dz))
Converged(dz, epsilon) == FLt(norm_sqr(dz), epsilon)

\* z = z - dz; if dz.norm_sqr() < epsilon { break; } n += 1;
newton_step(st, dz, epsilon) ==
    LET nz == sub(st.z, dz)
    IN  IF Converged(dz, epsilon)
        THEN [st EXCEPT !.z = nz, !.dz = dz, !.pc = "done",
                        !.trace = Visit(st, nz, dz)]
        ELSE [st EXCEPT !.z = nz, !.dz = dz, !.n = st.n + 1,
                        !.trace = Visit(st, nz, dz)]

\* f = z^3 - 1, df = 3 z^2, dz = f / df
newton(st, epsilon, limit) ==
    IF st.n < limit
    THEN newton_step(st,
                     div(sub(mul(mul(st.z, st.z), st.z), Complex(One, Zero)),
                         mul(mul(Complex(FromInt(3), Zero), st.z), st.z)),
                     epsilon)
    ELSE Return(st)

phoenix(st, p0, c, limit) ==
    IF WhileEscape(st.z, st.n, limit)
    THEN LET nz == add(add(mul(st.z, st.z), mul(c, st.z_old)), p0)
         IN  [Advance(st, nz) EXCEPT !.z_old = st.z]
    ELSE Return(st)

clifford(st, a, b, c, d, limit) ==
    IF WhileEscape(st.z, st.n, limit)
    THEN Advance(st, Complex(
             FAdd(FSin(FMul(a, st.z.imag)), FMul(c, FCos(FMul(a, st.z.real)))),
             FAdd(FSin(FMul(b, st.z.real)), FMul(d, FCos(FMul(b, st.z.imag))))))
    ELSE Return(st)

de_jong(st, limit, a, b, c, d) ==
    IF WhileEscape(st.z, st.n, limit)
    THEN LET x == st.z.real
             y == st.z.imag
         IN  Advance(st, Complex(
                 FSub(FSin(FMul(a, y)), FCos(FMul(b, x))),
                 FSub(FSin(FMul(c, x)), FCos(FMul(d, y)))))
    ELSE Return(st)

tinkerbell(st, limit, a, b, c, d) ==
    IF WhileEscape(st.z, st.n, limit)
    THEN LET x == st.z.real
             y == st.z.imag
         IN  Advance(st, Complex(
                 FAdd(FAdd(FSub(FMul(x, x), FMul(y, y)), FMul(a, x)), FMul(b, y)),
                 FAdd(FAdd(FMul(FMul(FromInt(2), x), y), FMul(c, x)), FMul(d, y))))
    ELSE Return(st)

celtic_mandelbrot(st, c, limit) ==
    IF WhileEscape(st.z, st.n, limit)
    THEN LET x == st.z.real
             y == st.z.imag
         IN  Advance(st, add(Complex(FAbs(FSub(FMul(x, x), FMul(y, y))),
                                     FMul(FMul(FromInt(2), x), y)), c))
    ELSE Return(st)

sine_mandelbrot(st, c, limit) ==
    IF WhileEscape(st.z, st.n, limit)
    THEN Advance(st, add(Complex(FMul(FSin(st.z.real), FCosh(st.z.imag)),
                                 FMul(FCos(st.z.real), FSinh(st.z.imag))), c))
    ELSE Return(st)

cosine_mandelbrot(st, c, limit) ==
    IF WhileEscape(st.z, st.n, limit)
    THEN Advance(st, add(Complex(FMul(FCos(st.z.real), FCosh(st.z.imag)),
                                 FNeg(FMul(FSin(st.z.real), FSinh(st.z.imag)))), c))
    ELSE Return(st)

exponential_mandelbrot(st, c, limit) ==
    IF WhileEscape(st.z, st.n, limit)
    THEN LET exp_re == FExp(st.z.real)
         IN  Advance(st, add(Complex(FMul(exp_re, FCos(st.z.imag)),
                                     FMul(exp_re, FSin(st.z.imag))), c))
    ELSE Return(st)

\* the kinds that start from the probe point; the others start from 0
\* (an entry that would start every kind from z = 0)
EnterAtOrigin(self, p0) == Locals(Origin)
Enter(self, p0) ==
    Locals(IF self.tag \in {"Julia", "Newton", "Clifford", "DeJong", "Tinkerbell"}
           THEN p0 ELSE Origin)

\* Fractal::sample: the match on the kind, one loop iteration (or the return)
Dispatch(self, p0, limit, st) ==
    CASE self.tag = "Mandelbrot" -> mandelbrot(st, p0, limit)
      [] self.tag = "BurningShip" -> burning_ship(st, p0, limit)
      [] self.tag = "Julia" -> julia(st, self.c, limit)
      [] self.tag = "Tricorn" -> tricorn(st, p0, limit)
      [] self.tag = "Multibrot" -> multibrot(st, p0, self.power, limit)
      [] self.tag = "Newton" -> newton(st, self.epsilon, limit)
      [] self.tag = "Phoenix" -> phoenix(st, p0, self.c, limit)
      [] self.tag = "Clifford" -> clifford(st, self.a, self.b, self.c, self.d, limit)
      [] self.tag = "DeJong" -> de_jong(st, limit, self.a, self.b, self.c, self.d)
      [] self.tag = "Tinkerbell" -> tinkerbell(st, limit, self.a, self.b, self.c, self.d)
      [] self.tag = "CelticMandelbrot" -> celtic_mandelbrot(st, p0, limit)
      [] self.tag = "SineMandelbrot" -> sine_mandelbrot(st, p0, limit)
      [] self.tag = "CosineMandelbrot" -> cosine_mandelbrot(st, p0, limit)
      [] self.tag = "ExponentialMandelbrot" -> exponential_mandelbrot(st, p0, limit)

RECURSIVE RunToReturn(_, _, _, _)
RunToReturn(self, p0, limit, st) ==
    IF st.pc = "done" THEN st
    ELSE RunToReturn(self, p0, limit, Dispatch(self, p0, limit, st))

sample(self, p0, limit) == RunToReturn(self, p0, limit, Enter(self, p0)).n

(***************************************************************************)
(* u32 and Array2<u32>.                                                    *)
(***************************************************************************)
\* the outcome of a u32 operation whose exact result is v >= 0
U32(v, checks) ==
    IF v < Word THEN [panic |-> FALSE, v |-> v]
    ELSE IF checks THEN [panic |-> TRUE, v |-> 0]
    ELSE [panic |-> FALSE, v |-> v % Word]

\* (resolution[1] as usize, resolution[0] as usize): rows = y_res, columns = x_res
\* (the two extents the other way round)
ShapeOfSwapped(resolution) == <<resolution[0], resolution[1]>>
ShapeOf(resolution) == <<resolution[1], resolution[0]>>

\* Array2::<u32>::zeros(shape), in row-major order
Zeros(shape) == [dim |-> shape, data |-> [i \in 1 .. shape[1] * shape[2] |-> 0]]

\* the place of [[y, x]] in the row-major data, counted from 1
Offset(grid, y, x) == y * grid.dim[2] + x + 1
InBounds(grid, y, x) == y < grid.dim[1] /\ x < grid.dim[2]

\* par_chunks_mut(size).enumerate(): chunk y is the slice [y * size, (y + 1) * size)
NumChunks(len, size) == (len + size - 1) \div size
\* (chunks that would share an element with the chunk before)
ChunkStartOverlapping(y, size) == IF y = 0 THEN 0 ELSE y * size - 1
ChunkStart(y, size) == y * size

(***************************************************************************)
(* The forward map and the per-pixel work of the escape-time renderers     *)
(* (src/src/render.rs render_fractal, src/src/sample.rs).                  *)
(***************************************************************************)
Steps(scale, resolution) ==
    LET x_res_t == FromInt(resolution[0])
        y_res_t == FromInt(resolution[1])
        aspect_ratio == FDiv(x_res_t, y_res_t)
        width == FMul(scale, aspect_ratio)
        height == scale
    IN  [x_step |-> FDiv(width, x_res_t),
         y_step |-> FDiv(height, y_res_t),
         half_x_res |-> FDiv(x_res_t, FromInt(2)),
         half_y_res |-> FDiv(y_res_t, FromInt(2))]

\* sample_area: the point sampled for the element of row y, column x
sample_area_point(centre, g, y, x) ==
    LET y_offset == FMul(FSub(FromInt(y), g.half_y_res), g.y_step)
        y_coord == FAdd(centre.imag, y_offset)
        x_coord == FAdd(centre.real, FMul(FSub(FromInt(x), g.half_x_res), g.x_step))
    IN  Complex(x_coord, y_coord)

sample_area_elem(centre, max_iter, scale, resolution, fractal, y, x) ==
    [panic |-> FALSE,
     v |-> sample(fractal, sample_area_point(centre, Steps(scale, resolution), y, x),
                 max_iter)]

\* variant: rows measured downwards from the top of the viewport
pixel_center_flipped(centre, g, y, x) ==
    Complex(
        FAdd(centre.real,
             FMul(FSub(FAdd(FromInt(x), Half), g.half_x_res), g.x_step)),
        FAdd(centre.imag,
             FMul(FSub(g.half_y_res, FAdd(FromInt(y), Half)), g.y_step)))

\* render_fractal, multisample_area: the centre of the pixel of row y, column x
pixel_center_of(centre, g, y, x) ==
    Complex(
        FAdd(centre.real,
             FMul(FSub(FAdd(FromInt(x), Half), g.half_x_res), g.x_step)),
        FAdd(centre.imag,
             FMul(FSub(FAdd(FromInt(y), Half), g.half_y_res), g.y_step)))

pixel_center(centre, scale, resolution, y, x) ==
    pixel_center_of(centre, Steps(scale, resolution), y, x)

\* the sub-pixel sample (i, j) of a samples x samples grid within the pixel
sub_sample_of(pixel_center_c, g, samples_t, i, j) ==
    LET offset_x == FMul(FSub(FDiv(FAdd(FromInt(i), Half), samples_t), Half), g.x_step)
        offset_y == FMul(FSub(FDiv(FAdd(FromInt(j), Half), samples_t), Half), g.y_step)
    IN  Complex(FAdd(pixel_center_c.real, offset_x), FAdd(pixel_center_c.imag, offset_y))

sub_sample(centre, scale, resolution, samples, y, x, i, j) ==
    sub_sample_of(pixel_center(centre, scale, resolution, y, x),
                  Steps(scale, resolution), FromInt(samples), i, j)

\* sum += fractal.sample(c, max_iter)
Accumulate(acc, count, checks) ==
    LET r == U32(acc.v + count, checks)
    IN  [panic |-> r.panic, v |-> r.v, m |-> acc.m + 1]

\* for i in 0..samples { for j in 0..samples { sum += fractal.sample(c, max_iter) } }
\* from the m-th of the samples * samples iterations on
RECURSIVE sum_loop(_, _, _, _, _, _, _, _, _, _)
sum_loop(centre, max_iter, scale, resolution, fractal, samples, checks, y, x, acc) ==
    IF acc.panic \/ acc.m >= samples * samples THEN acc
    ELSE sum_loop(centre, max_iter, scale, resolution, fractal, samples, checks, y, x,
                  Accumulate(acc,
                             sample(fractal,
                                    sub_sample(centre, scale, resolution, samples, y, x,
                                               acc.m \div samples, acc.m % samples),
                                    max_iter),
                             checks))

\* let total_samples = samples * samples; *pixel = sum / total_samples;
Average(sum, total_samples) == sum \div total_samples

Divide(acc, total_samples) ==
    IF acc.panic \/ total_samples.panic \/ total_samples.v = 0
    THEN [panic |-> TRUE, v |-> 0]
    ELSE [panic |-> FALSE, v |-> Average(acc.v, total_samples.v)]

supersample_pixel(centre, max_iter, scale, resolution, fractal, samples, checks, y, x) ==
    Divide(sum_loop(centre, max_iter, scale, resolution, fractal, samples, checks,
                    y, x, [panic |-> FALSE, v |-> 0, m |-> 0]),
           U32(samples * samples, checks))

(***************************************************************************)
(* Attractor<T>  (src/src/attractor.rs)                                    *)
(***************************************************************************)
Attractor(tag, a, b, c, d, u) ==
    [tag |-> tag, a |-> a, b |-> b, c |-> c, d |-> d, u |-> u]

attractor_clifford(p0, a, b, c, d) ==
    LET x == p0.real
        y == p0.imag
    IN  Complex(FAdd(FSin(FMul(a, y)), FMul(c, FCos(FMul(a, x)))),
                FAdd(FSin(FMul(b, x)), FMul(d, FCos(FMul(b, y)))))

attractor_de_jong(p0, a, b, c, d) ==
    LET x == p0.real
        y == p0.imag
    IN  Complex(FSub(FSin(FMul(a, y)), FCos(FMul(b, x))),
                FSub(FSin(FMul(c, x)), FCos(FMul(d, y))))

henon(p0, a, b) ==
    LET x == p0.real
        y == p0.imag
    IN  Complex(FAdd(FSub(One, FMul(FMul(a, x), x)), y), FMul(b, x))

ikeda(p0, u) ==
    LET x == p0.real
        y == p0.imag
        r_sq == FAdd(FMul(x, x), FMul(y, y))
        t == FSub(Lit(2, 5), FDiv(FromInt(6), FAdd(One, r_sq)))
        cos_t == FCos(t)
        sin_t == FSin(t)
    IN  Complex(FAdd(One, FMul(u, FSub(FMul(x, cos_t), FMul(y, sin_t)))),
                FMul(u, FAdd(FMul(x, sin_t), FMul(y, cos_t))))

attractor_tinkerbell(p0, a, b, c, d) ==
    LET x == p0.real
        y == p0.imag
    IN  Complex(FAdd(FAdd(FSub(FMul(x, x), FMul(y, y)), FMul(a, x)), FMul(b, y)),
                FAdd(FAdd(FMul(FMul(FromInt(2), x), y), FMul(c, x)), FMul(d, y)))

iterate(self, p0) ==
    CASE self.tag = "Clifford" -> attractor_clifford(p0, self.a, self.b, self.c, self.d)
      [] self.tag = "DeJong" -> attractor_de_jong(p0, self.a, self.b, self.c, self.d)
      [] self.tag = "Henon" -> henon(p0, self.a, self.b)
      [] self.tag = "Ikeda" -> ikeda(p0, self.u)
      [] self.tag = "Tinkerbell" -> attractor_tinkerbell(p0, self.a, self.b, self.c, self.d)

(***************************************************************************)
(* The inverse map and the histogram renderer  (src/src/render.rs)         *)
(***************************************************************************)
None == [some |-> FALSE, x |-> 0, y |-> 0]
Some(x, y) == [some |-> TRUE, x |-> x, y |-> y]

\* the closure returned by create_position_to_pixel_mapper, applied to p0
\* let x = ((shifted_real + half_width) / width) * max_x
pixel_x(offset, scale, resolution, p0) ==
    LET x_res == FromInt(resolution[0])
        y_res == FromInt(resolution[1])
        aspect_ratio == FDiv(x_res, y_res)
        width == FMul(scale, aspect_ratio)
        half_width == FDiv(width, FromInt(2))
        max_x == FSub(x_res, One)
        shifted_real == FSub(p0.real, offset.real)
    IN  FMul(FDiv(FAdd(shifted_real, half_width), width), max_x)

\* let y = ((half_height - shifted_imag) / height) * max_y
pixel_y(offset, scale, resolution, p0) ==
    LET y_res == FromInt(resolution[1])
        height == scale
        half_height == FDiv(height, FromInt(2))
        max_y == FSub(y_res, One)
        shifted_imag == FSub(p0.imag, offset.imag)
    IN  FMul(FDiv(FSub(half_height, shifted_imag), height), max_y)

\* if x >= 0 && x < x_res && y >= 0 && y < y_res { Some([x as usize, y as usize]) }
\* (a test that would accept the index x_res or y_res: <= in place of <)
InFrameInclusive(x, y, x_res, y_res) ==
    IF FGe(x, Zero) /\ FGe(x_res, x) /\ FGe(y, Zero) /\ FGe(y_res, y)
    THEN [some |-> TRUE, x |-> ToUsize(x), y |-> ToUsize(y)]
    ELSE None
InFrame(x, y, x_res, y_res) ==
    IF FGe(x, Zero) /\ FLt(x, x_res) /\ FGe(y, Zero) /\ FLt(y, y_res)
    THEN Some(ToUsize(x), ToUsize(y))
    ELSE None

\* (a mapper that would count rows from the bottom, like the forward map)
pixel_mapper_unflipped(offset, scale, resolution, p0) ==
    LET x_res == FromInt(resolution[0])
        y_res == FromInt(resolution[1])
        width == FMul(scale, FDiv(x_res, y_res))
    IN  InFrame(FMul(FDiv(FAdd(FSub(p0.real, offset.real), FDiv(width, FromInt(2))), width),
                     FSub(x_res, One)),
                FMul(FDiv(FAdd(FDiv(scale, FromInt(2)), FSub(p0.imag, offset.imag)), scale),
                     FSub(y_res, One)),
                x_res, y_res)
pixel_mapper(offset, scale, resolution, p0) ==
    InFrame(pixel_x(offset, scale, resolution, p0),
            pixel_y(offset, scale, resolution, p0),
            FromInt(resolution[0]), FromInt(resolution[1]))

\* if n < draw_after { continue; }
\* (a loop that would record every step, the first draw_after ones included)
RecordedFromStart(step, draw_after) == step >= 0
Recorded(step, draw_after) == ~(step < draw_after)

\* pixels[[y, x]] += 1
\* (a hit that would count double)
HitTwice(grid, y, x) ==
    IF InBounds(grid, y, x)
    THEN [panic |-> FALSE,
          grid |-> [grid EXCEPT !.data[Offset(grid, y, x)] = @ + 2]]
    ELSE [panic |-> TRUE, grid |-> grid]
Hit(grid, y, x) ==
    IF InBounds(grid, y, x)
    THEN [panic |-> FALSE,
          grid |-> [grid EXCEPT !.data[Offset(grid, y, x)] = @ + 1]]
    ELSE [panic |-> TRUE, grid |-> grid]

\* for n in 0..max_iter { ... }, from step on
\* if let Some([x, y]) = position_to_pixel(&pos) { pixels[[y, x]] += 1; }
Record(acc, at, recorded) ==
    IF recorded /\ at.some THEN Hit(acc.grid, at.y, at.x) ELSE acc

RECURSIVE path_loop(_, _, _, _, _, _, _, _, _)
\* pos = attractor.iterate(pos), then the rest of the loop body
path_step(next, centre, max_iter, draw_after, scale, resolution, attractor, step, acc) ==
    path_loop(next, centre, max_iter, draw_after, scale, resolution, attractor, step + 1,
              Record(acc, pixel_mapper(centre, scale, resolution, next),
                     Recorded(step, draw_after)))

path_loop(pos, centre, max_iter, draw_after, scale, resolution, attractor, step, acc) ==
    IF acc.panic \/ step >= max_iter THEN acc
    ELSE path_step(iterate(attractor, pos), centre, max_iter, draw_after, scale,
                   resolution, attractor, step, acc)

render_attractor_path(start, centre, max_iter, draw_after, scale, resolution, attractor) ==
    path_loop(start, centre, max_iter, draw_after, scale, resolution, attractor, 0,
              [panic |-> FALSE, grid |-> Zeros(ShapeOf(resolution))])

\* |a, b| a + b on Array2<u32>: the element-wise u32 sum of two grids of one shape
\* (an operation that would not commute: a - b)
GridSub(a, b, checks) ==
    [panic |-> FALSE,
     grid |-> [a EXCEPT !.data = [i \in DOMAIN a.data |-> (a.data[i] - b.data[i]) % Word]]]
GridAdd(a, b, checks) ==
    IF a.dim # b.dim THEN [panic |-> TRUE, grid |-> a]
    ELSE IF checks /\ \E i \in DOMAIN a.data : a.data[i] + b.data[i] > U32Max
         THEN [panic |-> TRUE, grid |-> a]
    ELSE [panic |-> FALSE,
          grid |-> [a EXCEPT !.data = [i \in DOMAIN a.data |->
                                          (a.data[i] + b.data[i]) % Word]]]

\* sqrt, rounded to the format
FSqrt(a) ==
    IF IsNaN(a) \/ a[2] < 0 THEN NaN
    ELSE IF IsInf(a) THEN PInf
    ELSE LET m == a[2] * Prec
             r == CHOOSE r \in 0 .. m : r * r <= m /\ (r + 1) * (r + 1) > m
         IN  Fin(IF m - r * r > r THEN r + 1 ELSE r)

\* generate_initial_positions: the point for the draws theta and u of the rng
position(start, theta, u) ==
    LET rho == FSqrt(u)
    IN  Complex(FAdd(start.real, FMul(rho, FCos(theta))),
                FAdd(start.imag, FMul(rho, FSin(theta))))

\* the grids held by the reduction: a bag, as a function from grid to count
EmptyBag == << >>
BagSize(bag) ==
    LET RECURSIVE count(_)
        count(left) ==
            IF left = {} THEN 0
            ELSE LET g == CHOOSE g \in left : TRUE
                 IN  bag[g] + count(left \ {g})
    IN  count(DOMAIN bag)
BagAdd(bag, g) ==
    IF g \in DOMAIN bag THEN [bag EXCEPT ![g] = @ + 1] ELSE bag @@ (g :> 1)
BagRemove(bag, g) ==
    IF bag[g] > 1 THEN [bag EXCEPT ![g] = @ - 1]
    ELSE [h \in DOMAIN bag \ {g} |-> bag[h]]

(***************************************************************************)
(* The inputs of the model.                                                *)
(***************************************************************************)
Plain(tag) == Fractal(tag, Origin, 0, Zero, Zero, Zero, Zero)

\* a value of every kind; Kinds adds further parameters
RenderKinds ==
    {Plain("Mandelbrot"), Plain("BurningShip"), Plain("Tricorn"),
     Plain("CelticMandelbrot"), Plain("SineMandelbrot"),
     Plain("CosineMandelbrot"), Plain("ExponentialMandelbrot"),
     Fractal("Julia", Complex(Lit(-3, 4), Lit(1, 4)), 0, Zero, Zero, Zero, Zero),
     Fractal("Multibrot", Origin, 3, Zero, Zero, Zero, Zero),
     Fractal("Newton", Origin, 0, Lit(1, 8), Zero, Zero, Zero),
     Fractal("Phoenix", Complex(Lit(1, 2), Zero), 0, Zero, Zero, Zero, Zero),
     Fractal("Clifford", One, 0, Zero, Lit(-3, 2), Lit(3, 2), Lit(3, 4)),
     Fractal("DeJong", FromInt(2), 0, Zero, Lit(3, 2), FromInt(-2), FromInt(-2)),
     Fractal("Tinkerbell", FromInt(2), 0, Zero, Lit(7, 8), Lit(-5, 8), Lit(1, 2))}

Kinds ==
    RenderKinds
    \cup {Fractal("Multibrot", Origin, pw, Zero, Zero, Zero, Zero) : pw \in {0, 2}}
    \cup {Fractal("Newton", Origin, 0, eps, Zero, Zero, Zero) : eps \in {Zero, One}}

Attractors ==
    {Attractor("Clifford", Lit(-3, 2), Lit(3, 2), One, Lit(3, 4), Zero),
     Attractor("DeJong", Lit(3, 2), FromInt(-2), FromInt(2), FromInt(-2), Zero),
     Attractor("Henon", Lit(7, 5), Lit(3, 10), Zero, Zero, Zero),
     Attractor("Ikeda", Zero, Zero, Zero, Zero, Lit(9, 10)),
     Attractor("Tinkerbell", Lit(7, 8), Lit(-5, 8), FromInt(2), Lit(1, 2), Zero)}

\* probe points: the half-integer lattice of the square [-2, 2] x [-2, 2]
Points == {Complex(Lit(i, 2), Lit(j, 2)) : i \in -4 .. 4, j \in -4 .. 4}

Centres == {Complex(Lit(-3, 4), Zero)}
Scales == {FromInt(4)}
\* the u32 values up to a bound
U32s(bound) == 0 .. (IF bound < U32Max THEN bound ELSE U32Max)
Resolutions == [{0, 1} -> U32s(MaxRes)]
Builds == BOOLEAN
MapperCentres == Centres \cup {Origin}
MapperScales == {Zero, FromInt(2), FromInt(4)}
MapperResolutions == [{0, 1} -> 0 .. MaxMapRes]
Starts == {Origin}
DrawAfters == {0, 1, MaxIter}
Radii == {Zero, Lit(1, 4)}

\* the draws of the rng this model follows: an angle in [0, tau) and a value
\* in [0, radius), here the greatest of the format
Thetas == {Fin(0), Fin(HalfPi)}
Draws(radius) == {Fin(radius[2] - 1)}

(***************************************************************************)
(* The state.                                                              *)
(***************************************************************************)
VARIABLES
    \* one call of Fractal::sample
    fractal, p, max_iter, z, z_old, n, dz, pc, trace,
    \* one call of a renderer: the entry point, its arguments, the build,
    \* "called" / "running" / "returned" / "panicked", and the grid
    call, centre, scale, resolution, overflow_checks, status, pixels,
    \* sample_area, multisample_area, render_fractal: the next column of each row
    samples_per_pixel, cursor,
    \* render_attractor: its arguments, the trajectories still to run, the grids
    \* held by the reduction and the identities it has created
    attractor, start, radius, num_samples, draw_after, initial_positions,
    pending, partials, identities,
    \* the coordinate mappers: the pixel mapped forward, the point, the result
    pixel, point, hit,
    \* the caller: the values returned by the calls it has made so far
    returned

sampleVars == <<fractal, p, max_iter, z, z_old, n, dz, pc, trace>>
callVars == <<call, centre, scale, resolution, overflow_checks, status, pixels>>
fractalVars == <<samples_per_pixel, cursor>>
attractorVars ==
    <<attractor, start, radius, num_samples, draw_after, initial_positions,
      pending, partials, identities>>
mapperVars == <<pixel, point, hit>>
vars == <<sampleVars, callVars, fractalVars, attractorVars, mapperVars, returned>>

\* the parts of the state a call does not use
NoSample ==
    /\ p = Origin /\ z = Origin /\ z_old = Origin /\ n = 0 /\ dz = Origin
    /\ pc = "idle" /\ trace = << >>
NoCall ==
    /\ call = "sample" /\ centre = Origin /\ scale = Zero
    /\ resolution = [i \in {0, 1} |-> 0] /\ overflow_checks = FALSE
    /\ status = "idle" /\ pixels = Zeros(<<0, 0>>)
NoFractalRender == samples_per_pixel = 0 /\ cursor = << >>
NoAttractor ==
    /\ attractor = Attractor("Henon", Zero, Zero, Zero, Zero, Zero)
    /\ start = Origin /\ radius = Zero /\ num_samples = 0 /\ draw_after = 0
    /\ initial_positions = << >> /\ pending = {} /\ partials = EmptyBag
    /\ identities = 0
NoMapper == pixel = None /\ point = Origin /\ hit = None

(***************************************************************************)
(* One call of Fractal::sample, an iteration of the kind's loop at a time. *)
(***************************************************************************)
Now == [z |-> z, z_old |-> z_old, n |-> n, dz |-> dz, pc |-> pc, trace |-> trace]

\* the locals after the iteration
Becomes(st) ==
    /\ z' = st.z
    /\ z_old' = st.z_old
    /\ n' = st.n
    /\ dz' = st.dz
    /\ pc' = st.pc
    /\ trace' = st.trace
    /\ UNCHANGED <<fractal, p, max_iter>>
    /\ UNCHANGED <<callVars, fractalVars, attractorVars, mapperVars, returned>>

InitSample ==
    /\ fractal \in Kinds
    /\ p \in Points
    /\ max_iter \in U32s(MaxIter)
    /\ z = Enter(fractal, p).z
    /\ z_old = Enter(fractal, p).z_old
    /\ n = 0
    /\ dz = Origin
    /\ pc = "loop"
    /\ trace = << >>
    /\ NoCall /\ NoFractalRender /\ NoAttractor /\ NoMapper
    /\ returned = << >>

Looping(tag) == pc = "loop" /\ fractal.tag = tag

SampleMandelbrot == Looping("Mandelbrot") /\ Becomes(mandelbrot(Now, p, max_iter))
SampleBurningShip == Looping("BurningShip") /\ Becomes(burning_ship(Now, p, max_iter))
SampleJulia == Looping("Julia") /\ Becomes(julia(Now, fractal.c, max_iter))
SampleTricorn == Looping("Tricorn") /\ Becomes(tricorn(Now, p, max_iter))
SampleMultibrot ==
    Looping("Multibrot") /\ Becomes(multibrot(Now, p, fractal.power, max_iter))
SampleNewton == Looping("Newton") /\ Becomes(newton(Now, fractal.epsilon, max_iter))
SamplePhoenix == Looping("Phoenix") /\ Becomes(phoenix(Now, p, fractal.c, max_iter))
SampleClifford ==
    Looping("Clifford")
    /\ Becomes(clifford(Now, fractal.a, fractal.b, fractal.c, fractal.d, max_iter))
SampleDeJong ==
    Looping("DeJong")
    /\ Becomes(de_jong(Now, max_iter, fractal.a, fractal.b, fractal.c, fractal.d))
SampleTinkerbell ==
    Looping("Tinkerbell")
    /\ Becomes(tinkerbell(Now, max_iter, fractal.a, fractal.b, fractal.c, fractal.d))
SampleCeltic == Looping("CelticMandelbrot") /\ Becomes(celtic_mandelbrot(Now, p, max_iter))
SampleSine == Looping("SineMandelbrot") /\ Becomes(sine_mandelbrot(Now, p, max_iter))
SampleCosine == Looping("CosineMandelbrot") /\ Becomes(cosine_mandelbrot(Now, p, max_iter))
SampleExponential ==
    Looping("ExponentialMandelbrot")
    /\ Becomes(exponential_mandelbrot(Now, p, max_iter))

NextSample ==
    \/ SampleMandelbrot
    \/ SampleBurningShip
    \/ SampleJulia
    \/ SampleTricorn
    \/ SampleMultibrot
    \/ SampleNewton
    \/ SamplePhoenix
    \/ SampleClifford
    \/ SampleDeJong
    \/ SampleTinkerbell
    \/ SampleCeltic
    \/ SampleSine
    \/ SampleCosine
    \/ SampleExponential

SpecSample == InitSample /\ [][NextSample]_vars

(***************************************************************************)
(* One call of sample_area, multisample_area or render_fractal.  The rows  *)
(* (the chunks of par_chunks_mut) are worked on by the pool in any order   *)
(* and any interleaving, each row from its first column to its last.       *)
(***************************************************************************)
FractalCalls == {"sample_area", "multisample_area", "render_fractal"}

InitFractal ==
    /\ call \in FractalCalls
    /\ centre \in Centres
    /\ max_iter \in U32s(MaxIter)
    /\ scale \in Scales
    /\ resolution \in Resolutions
    /\ fractal \in RenderKinds
    /\ samples_per_pixel \in IF call = "sample_area" THEN {1} ELSE U32s(MaxSamples)
    /\ overflow_checks \in Builds
    /\ status = "called"
    /\ pixels = Zeros(<<0, 0>>)
    /\ cursor = << >>
    /\ NoSample /\ NoAttractor /\ NoMapper
    /\ returned = << >>

\* the grid is allocated and split into rows; par_chunks_mut(0) panics
Allocate ==
    /\ status = "called"
    /\ call \in FractalCalls
    /\ pixels' = Zeros(ShapeOf(resolution))
    /\ IF resolution[0] = 0
       THEN status' = "panicked" /\ UNCHANGED cursor
       ELSE /\ status' = "running"
            /\ cursor' = [y \in 0 .. NumChunks(Len(pixels'.data), resolution[0]) - 1 |-> 0]
    /\ UNCHANGED <<call, centre, scale, resolution, overflow_checks, samples_per_pixel>>
    /\ UNCHANGED <<sampleVars, attractorVars, mapperVars, returned>>

\* the closure of for_each stores one element of row y, or panics
Store(y, r) ==
    /\ IF r.panic
       THEN status' = "panicked" /\ UNCHANGED <<pixels, cursor>>
       ELSE /\ pixels' = [pixels EXCEPT
                 !.data[ChunkStart(y, resolution[0]) + cursor[y] + 1] = r.v]
            /\ cursor' = [cursor EXCEPT ![y] = @ + 1]
            /\ UNCHANGED status
    /\ UNCHANGED <<call, centre, scale, resolution, overflow_checks, samples_per_pixel>>
    /\ UNCHANGED <<sampleVars, attractorVars, mapperVars, returned>>

Working(name, y) ==
    status = "running" /\ call = name /\ y \in DOMAIN cursor /\ cursor[y] < resolution[0]

SampleAreaRow(y) ==
    /\ Working("sample_area", y)
    /\ Store(y, sample_area_elem(centre, max_iter, scale, resolution, fractal,
                                 y, cursor[y]))

MultisampleAreaRow(y) ==
    /\ Working("multisample_area", y)
    /\ Store(y, supersample_pixel(centre, max_iter, scale, resolution, fractal,
                                  samples_per_pixel, overflow_checks, y, cursor[y]))

RenderFractalRow(y) ==
    /\ Working("render_fractal", y)
    /\ Store(y, supersample_pixel(centre, max_iter, scale, resolution, fractal,
                                  samples_per_pixel, overflow_checks, y, cursor[y]))

\* every row is done: the call returns the grid
ReturnGrid ==
    /\ status = "running"
    /\ call \in FractalCalls
    /\ \A y \in DOMAIN cursor : cursor[y] = resolution[0]
    /\ status' = "returned"
    /\ UNCHANGED <<call, centre, scale, resolution, overflow_checks, pixels>>
    /\ UNCHANGED <<sampleVars, fractalVars, attractorVars, mapperVars, returned>>

NextFractal ==
    \/ Allocate
    \/ \E y \in 0 .. MaxRes : SampleAreaRow(y)
    \/ \E y \in 0 .. MaxRes : MultisampleAreaRow(y)
    \/ \E y \in 0 .. MaxRes : RenderFractalRow(y)
    \/ ReturnGrid

SpecFractal == InitFractal /\ [][NextFractal]_vars

(***************************************************************************)
(* The scene of examples/mandelbrot.rs on a grid of 21 x 21 with one       *)
(* sample per pixel: the closure of render_fractal on one pixel, its       *)
(* sample loop a pass at a time.                                           *)
(***************************************************************************)
MAX_ITER == 100

InitScenario ==
    /\ call = "render_fractal"
    /\ centre = Complex(Lit(-3, 4), Zero)
    /\ max_iter = MAX_ITER
    /\ scale = FromInt(3)
    /\ resolution = [i \in {0, 1} |-> 21]
    /\ fractal = Plain("Mandelbrot")
    /\ samples_per_pixel = 1
    /\ overflow_checks \in Builds
    /\ status = "called"
    /\ pixels = Zeros(<<0, 0>>)
    /\ pixel \in {Some(x, y) : x \in 0 .. 20, y \in 0 .. 20}
    /\ cursor = << >>
    /\ point = Origin /\ hit = None
    /\ NoSample /\ NoAttractor
    /\ returned = << >>

\* the closure reaches the pixel: c of its only sub-sample, fractal.sample(c, max_iter)
ScenarioSample ==
    /\ call = "render_fractal"
    /\ status = "called"
    /\ pixel.some
    /\ pixels' = Zeros(ShapeOf(resolution))
    /\ p' = sub_sample(centre, scale, resolution, samples_per_pixel,
                       pixel.y, pixel.x, 0, 0)
    /\ z' = Origin /\ z_old' = Origin /\ n' = 0 /\ dz' = Origin
    /\ pc' = "loop"
    /\ trace' = << >>
    /\ status' = "running"
    /\ UNCHANGED <<call, centre, scale, resolution, overflow_checks, fractal, max_iter>>
    /\ UNCHANGED <<fractalVars, attractorVars, mapperVars, returned>>

\* sum += n; *pixel = sum / total_samples  (one sample of at most MAX_ITER:
\* the sum and the product are below 2^32 in either build)
ScenarioStore ==
    /\ call = "render_fractal"
    /\ status = "running"
    /\ pixel.some
    /\ pc = "done"
    /\ pixels' = [pixels EXCEPT
                     !.data[ChunkStart(pixel.y, resolution[0]) + pixel.x + 1] =
                         Average(0 + n, samples_per_pixel * samples_per_pixel)]
    /\ status' = "returned"
    /\ UNCHANGED <<call, centre, scale, resolution, overflow_checks>>
    /\ UNCHANGED <<sampleVars, fractalVars, attractorVars, mapperVars, returned>>

NextScenario ==
    \/ ScenarioSample
    \/ SampleMandelbrot
    \/ ScenarioStore

SpecScenario == InitScenario /\ [][NextScenario]_vars

(***************************************************************************)
(* One call of render_attractor.  The trajectories are run by the pool in  *)
(* any order; reduce() creates identities and adds any two of the grids it *)
(* holds, until one grid is left.                                          *)
(***************************************************************************)
InitAttractor ==
    /\ call = "render_attractor"
    /\ centre \in Centres
    /\ scale \in Scales
    /\ resolution \in Resolutions
    /\ start \in Starts
    /\ radius \in Radii
    /\ num_samples \in 0 .. MaxTraj
    /\ max_iter \in U32s(MaxIter)
    /\ draw_after \in DrawAfters
    /\ attractor \in Attractors
    /\ overflow_checks \in Builds
    /\ status = "called"
    /\ pixels = Zeros(<<0, 0>>)
    /\ initial_positions = << >>
    /\ pending = {}
    /\ partials = EmptyBag
    /\ identities = 0
    /\ fractal = Plain("Mandelbrot")
    /\ NoSample /\ NoFractalRender /\ NoMapper
    /\ returned = << >>

AttractorArgs ==
    <<call, centre, scale, resolution, overflow_checks, max_iter, fractal,
      attractor, start, radius, num_samples, draw_after>>

\* generate_initial_positions: random_range panics on the empty range 0..radius
GenerateInitialPositions ==
    /\ status = "called"
    /\ call = "render_attractor"
    /\ IF num_samples > 0 /\ ~FLt(Zero, radius)
       THEN /\ status' = "panicked"
            /\ UNCHANGED <<initial_positions, pending>>
       ELSE /\ \E rng \in [1 .. num_samples -> Thetas \X Draws(radius)] :
                 initial_positions' =
                     [t \in 1 .. num_samples |-> position(start, rng[t][1], rng[t][2])]
            /\ pending' = 1 .. num_samples
            /\ status' = "running"
    /\ UNCHANGED <<AttractorArgs, pixels, partials, identities>>
    /\ UNCHANGED <<p, z, z_old, n, dz, pc, trace, fractalVars, mapperVars, returned>>

\* the map closure of one trajectory
Collect(t, r) ==
    IF r.panic
    THEN status' = "panicked" /\ UNCHANGED <<pending, partials>>
    ELSE /\ partials' = BagAdd(partials, r.grid)
         /\ pending' = pending \ {t}
         /\ UNCHANGED status

RenderAttractorPath(t) ==
    /\ status = "running"
    /\ call = "render_attractor"
    /\ t \in pending
    /\ Collect(t, render_attractor_path(initial_positions[t], centre, max_iter,
                                        draw_after, scale, resolution, attractor))
    /\ UNCHANGED <<AttractorArgs, pixels, initial_positions, identities>>
    /\ UNCHANGED <<p, z, z_old, n, dz, pc, trace, fractalVars, mapperVars, returned>>

\* || Array2::zeros(shape): at most one per leaf of the reduction
ReduceIdentity ==
    /\ status = "running"
    /\ call = "render_attractor"
    /\ identities < (IF num_samples = 0 THEN 1 ELSE num_samples)
    /\ partials' = BagAdd(partials, Zeros(ShapeOf(resolution)))
    /\ identities' = identities + 1
    /\ UNCHANGED <<AttractorArgs, pixels, initial_positions, pending, status>>
    /\ UNCHANGED <<p, z, z_old, n, dz, pc, trace, fractalVars, mapperVars, returned>>

\* |a, b| a + b
ReduceOp ==
    /\ status = "running"
    /\ call = "render_attractor"
    /\ \E a \in DOMAIN partials, b \in DOMAIN partials :
          /\ a # b \/ partials[a] > 1
          /\ LET r == GridAdd(a, b, overflow_checks)
             IN  IF r.panic
                 THEN status' = "panicked" /\ UNCHANGED partials
                 ELSE /\ partials' = BagAdd(BagRemove(BagRemove(partials, a), b), r.grid)
                      /\ UNCHANGED status
    /\ UNCHANGED <<AttractorArgs, pixels, initial_positions, pending, identities>>
    /\ UNCHANGED <<p, z, z_old, n, dz, pc, trace, fractalVars, mapperVars, returned>>

\* every trajectory is reduced into one grid: the call returns it
ReturnReduced ==
    /\ status = "running"
    /\ call = "render_attractor"
    /\ pending = {}
    /\ BagSize(partials) = 1
    /\ pixels' = CHOOSE g \in DOMAIN partials : TRUE
    /\ partials' = EmptyBag
    /\ status' = "returned"
    /\ UNCHANGED <<AttractorArgs, initial_positions, pending, identities>>
    /\ UNCHANGED <<p, z, z_old, n, dz, pc, trace, fractalVars, mapperVars, returned>>

NextAttractor ==
    \/ GenerateInitialPositions
    \/ \E t \in 1 .. MaxTraj : RenderAttractorPath(t)
    \/ ReduceIdentity
    \/ ReduceOp
    \/ ReturnReduced

SpecAttractor == InitAttractor /\ [][NextAttractor]_vars

(***************************************************************************)
(* One call of render_attractor_path, a pass of its loop at a time: pos is *)
(* held in z, the loop index in n and the private grid in pixels.          *)
(***************************************************************************)
InitPath ==
    /\ call = "render_attractor_path"
    /\ start \in Points
    /\ centre \in Centres
    /\ max_iter \in U32s(MaxIter)
    /\ draw_after \in DrawAfters
    /\ scale \in Scales
    /\ resolution \in Resolutions
    /\ attractor \in Attractors
    /\ overflow_checks = FALSE
    /\ pixels = Zeros(ShapeOf(resolution))
    /\ z = start
    /\ n = 0
    /\ status = "running"
    /\ fractal = Plain("Mandelbrot")
    /\ p = Origin /\ z_old = Origin /\ dz = Origin /\ pc = "idle" /\ trace = << >>
    /\ radius = Zero /\ num_samples = 0 /\ initial_positions = << >>
    /\ pending = {} /\ partials = EmptyBag /\ identities = 0
    /\ NoFractalRender /\ NoMapper
    /\ returned = << >>

\* the grid after the pass, or the abort of an index out of bounds
Counted(r) ==
    IF r.panic
    THEN status' = "panicked" /\ UNCHANGED pixels
    ELSE pixels' = r.grid /\ UNCHANGED status

\* one pass of for n in 0..max_iter
PathIterate ==
    /\ call = "render_attractor_path"
    /\ status = "running"
    /\ n < max_iter
    /\ z' = iterate(attractor, z)
    /\ Counted(Record([panic |-> FALSE, grid |-> pixels],
                      pixel_mapper(centre, scale, resolution, z'),
                      Recorded(n, draw_after)))
    /\ n' = n + 1
    /\ UNCHANGED <<call, centre, scale, resolution, overflow_checks>>
    /\ UNCHANGED <<fractal, p, max_iter, z_old, dz, pc, trace>>
    /\ UNCHANGED <<fractalVars, attractorVars, mapperVars, returned>>

\* the loop is over: the private grid is returned
PathReturn ==
    /\ call = "render_attractor_path"
    /\ status = "running"
    /\ ~(n < max_iter)
    /\ status' = "returned"
    /\ UNCHANGED <<call, centre, scale, resolution, overflow_checks, pixels>>
    /\ UNCHANGED <<sampleVars, fractalVars, attractorVars, mapperVars, returned>>

NextPath ==
    \/ PathIterate
    \/ PathReturn

SpecPath == InitPath /\ [][NextPath]_vars

(***************************************************************************)
(* The two coordinate maps on one viewport: a pixel is sent to the plane   *)
(* by the forward map of the grid renderer, or a point is taken as it is,  *)
(* and the closure of create_position_to_pixel_mapper is applied to it.    *)
(***************************************************************************)
InitMapper ==
    /\ call = "pixel_mapper"
    /\ centre \in MapperCentres
    /\ scale \in MapperScales
    /\ resolution \in MapperResolutions
    /\ status = "called"
    /\ overflow_checks = FALSE
    /\ pixels = Zeros(<<0, 0>>)
    /\ max_iter = 0
    /\ fractal = Plain("Mandelbrot")
    /\ NoSample /\ NoFractalRender /\ NoAttractor /\ NoMapper
    /\ returned = << >>

MapperArgs == <<call, centre, scale, resolution, overflow_checks, pixels>>

\* render_fractal: the pixel centre of the element of row y, column x
ForwardMap ==
    /\ status = "called"
    /\ call = "pixel_mapper"
    /\ \E x \in 0 .. resolution[0] - 1, y \in 0 .. resolution[1] - 1 :
          /\ pixel' = Some(x, y)
          /\ point' = pixel_center(centre, scale, resolution, y, x)
    /\ status' = "mapped"
    /\ UNCHANGED <<MapperArgs, hit, sampleVars, fractalVars, attractorVars, returned>>

\* any point of the plane
ChoosePoint ==
    /\ status = "called"
    /\ call = "pixel_mapper"
    /\ point' \in Points
    /\ status' = "mapped"
    /\ UNCHANGED <<MapperArgs, pixel, hit, sampleVars, fractalVars, attractorVars, returned>>

\* the closure returned by create_position_to_pixel_mapper, applied to the point
PixelMapper ==
    /\ status = "mapped"
    /\ call = "pixel_mapper"
    /\ hit' = pixel_mapper(centre, scale, resolution, point)
    /\ status' = "returned"
    /\ UNCHANGED <<MapperArgs, pixel, point, sampleVars, fractalVars, attractorVars, returned>>

NextMapper ==
    \/ ForwardMap
    \/ ChoosePoint
    \/ PixelMapper

SpecMapper == InitMapper /\ [][NextMapper]_vars

(***************************************************************************)
(* A caller that makes the same call twice, Fractal::sample or one of the  *)
(* grid renderers, with the same arguments, and keeps the two results.     *)
(***************************************************************************)
InitTwice ==
    \/ InitSample
    \/ InitFractal

\* (a sample that would start from the z left by the call before, as a
\* static would hold it)
SampleAgainFromLastZ ==
    /\ call = "sample"
    /\ pc = "done"
    /\ Len(returned) < 2
    /\ returned' = Append(returned, n)
    /\ n' = 0
    /\ trace' = << >>
    /\ pc' = IF returned = << >> THEN "loop" ELSE "idle"
    /\ UNCHANGED <<fractal, p, max_iter, z, z_old, dz>>
    /\ UNCHANGED <<callVars, fractalVars, attractorVars, mapperVars>>
\* the count is returned; the first time, sample is entered again: its locals
\* are created anew
SampleAgain ==
    /\ call = "sample"
    /\ pc = "done"
    /\ Len(returned) < 2
    /\ returned' = Append(returned, n)
    /\ z' = Enter(fractal, p).z
    /\ z_old' = Enter(fractal, p).z_old
    /\ n' = 0
    /\ dz' = Origin
    /\ trace' = << >>
    /\ pc' = IF returned = << >> THEN "loop" ELSE "idle"
    /\ UNCHANGED <<fractal, p, max_iter>>
    /\ UNCHANGED <<callVars, fractalVars, attractorVars, mapperVars>>

\* the grid is returned; the first time, the renderer is called again
RenderAgain ==
    /\ call \in FractalCalls
    /\ status = "returned"
    /\ Len(returned) < 2
    /\ returned' = Append(returned, pixels)
    /\ pixels' = Zeros(<<0, 0>>)
    /\ cursor' = << >>
    /\ status' = IF returned = << >> THEN "called" ELSE "idle"
    /\ UNCHANGED <<call, centre, scale, resolution, overflow_checks, samples_per_pixel>>
    /\ UNCHANGED <<sampleVars, attractorVars, mapperVars>>

NextTwice ==
    \/ NextSample
    \/ NextFractal
    \/ SampleAgain
    \/ RenderAgain

SpecTwice == InitTwice /\ [][NextTwice]_vars

(***************************************************************************)
(* The library: any one of its calls.                                      *)
(***************************************************************************)
Init ==
    \/ InitSample
    \/ InitFractal
    \/ InitAttractor
    \/ InitMapper

Next ==
    \/ NextSample
    \/ NextFractal
    \/ NextAttractor
    \/ NextMapper

Spec == Init /\ [][Next]_vars

(***************************************************************************)
(* Properties of Fractal::sample.                                          *)
(***************************************************************************)
\* C1: for each of the 14 kinds, every probe point and every max_iter, the
\* count returned by sample lies in 0 .. max_iter.
SampleInRange == pc = "done" => n \in 0 .. max_iter

\* a call that ran its loop to the limit, and returned max_iter > 0
SampleRanToLimit == pc = "done" /\ max_iter > 0 /\ n = max_iter /\ Len(trace) = max_iter

\* the steps of the call, counted from 0, whose squared norm is below epsilon
SmallSteps ==
    {i \in 0 .. Len(trace) - 1 : FLt(norm_sqr(trace[i + 1].dz), fractal.epsilon)}

\* C2: the Newton kind returns the index of the first step (the first update
\* is step 0) whose squared norm is below epsilon, and max_iter when none of
\* the steps 0 .. max_iter - 1 is.
NewtonFirstSmallStep ==
    (pc = "done" /\ fractal.tag = "Newton") =>
        IF SmallSteps = {}
        THEN n = max_iter /\ Len(trace) = max_iter
        ELSE n \in SmallSteps /\ n < max_iter /\ \A i \in SmallSteps : n <= i

\* a Newton call that converged after at least one step that did not
NewtonConvergedLate ==
    pc = "done" /\ fractal.tag = "Newton" /\ n > 0 /\ n < max_iter /\ n \in SmallSteps

(***************************************************************************)
(* Properties of the grids.                                                *)
(***************************************************************************)
HasShape(grid) ==
    /\ grid.dim = <<resolution[1], resolution[0]>>
    /\ Len(grid.data) = resolution[1] * resolution[0]

\* C3: the grid of render_fractal, sample_area and multisample_area, and the
\* grid of render_attractor with each per-trajectory grid and each identity of
\* the reduction, has shape (resolution[1], resolution[0]).
GridShape ==
    /\ (call \in FractalCalls /\ status \in {"running", "returned"}) => HasShape(pixels)
    /\ call = "render_attractor" => \A g \in DOMAIN partials : HasShape(g)
    /\ (call = "render_attractor" /\ status = "returned") => HasShape(pixels)

\* a histogram of a viewport wider than tall, reduced from trajectories and identities
WideHistogramReturned ==
    /\ call = "render_attractor" /\ status = "returned"
    /\ resolution[0] = 2 /\ resolution[1] = 1
    /\ num_samples > 0 /\ identities > 0

Supersampled == call \in {"render_fractal", "multisample_area"}
At(y, x) == pixels.data[y * resolution[0] + x + 1]
Rows == 0 .. resolution[1] - 1
Columns == 0 .. resolution[0] - 1

\* C4: every pixel of the grid returned by render_fractal / multisample_area
\* lies in 0 .. max_iter, with the sum and k * k held as u32.
AveragedPixelInRange ==
    (Supersampled /\ status = "returned") =>
        \A y \in Rows, x \in Columns : At(y, x) \in 0 .. max_iter

\* the element the call computes for row y, column x
Element(y, x) ==
    IF call = "sample_area"
    THEN sample_area_elem(centre, max_iter, scale, resolution, fractal, y, x)
    ELSE supersample_pixel(centre, max_iter, scale, resolution, fractal,
                           samples_per_pixel, overflow_checks, y, x)

\* C5: whatever the order in which the rows are worked on, and however their
\* steps interleave, each element written is the one a sequential pass over
\* rows 0 .. h-1 writes, the others are still zero, and the grid returned is
\* the grid of the sequential pass.
RowsIndependent ==
    /\ (call \in FractalCalls /\ status = "running") =>
           \A y \in Rows, x \in Columns :
               At(y, x) = IF x < cursor[y] THEN Element(y, x).v ELSE 0
    /\ (call \in FractalCalls /\ status = "returned") =>
           \A y \in Rows, x \in Columns : At(y, x) = Element(y, x).v

\* the last row is finished before the first row is begun
LastRowFirst ==
    /\ call \in FractalCalls /\ status = "running"
    /\ resolution[0] = 2 /\ resolution[1] = 2
    /\ cursor[1] = 2 /\ cursor[0] = 0
    /\ At(1, 0) # At(1, 1) /\ Element(0, 0).v # 0

\* C6: with samples = 1 the grid of render_fractal / multisample_area equals
\* the grid of sample_area on the same inputs, element by element.
SupersampleOneIsSampleArea ==
    (Supersampled /\ status = "returned" /\ samples_per_pixel = 1) =>
        \A y \in Rows, x \in Columns :
            At(y, x) = sample_area_elem(centre, max_iter, scale, resolution,
                                        fractal, y, x).v

SumOver(f, S) ==
    LET RECURSIVE sum(_)
        sum(left) ==
            IF left = {} THEN 0
            ELSE LET e == CHOOSE e \in left : TRUE
                 IN  f[e] + sum(left \ {e})
    IN  sum(S)

\* the sum S of the k * k counts of the pixel, as a number
SubSampleSum(y, x) ==
    LET k == samples_per_pixel
        counts == [ij \in (0 .. k - 1) \X (0 .. k - 1) |->
                      sample(fractal,
                             sub_sample(centre, scale, resolution, k, y, x, ij[1], ij[2]),
                             max_iter)]
    IN  SumOver(counts, DOMAIN counts)

\* C7: for samples k > 1 each pixel of render_fractal / multisample_area is
\* floor(S / k^2), S the sum of the counts of the k * k sub-samples.
SupersampleIsFloorOfMean ==
    (Supersampled /\ status = "returned" /\ samples_per_pixel > 1) =>
        \A y \in Rows, x \in Columns :
            At(y, x) = SubSampleSum(y, x) \div (samples_per_pixel * samples_per_pixel)

(***************************************************************************)
(* Properties of the histogram.                                            *)
(***************************************************************************)
\* the grid of trajectory t, alone
PathGrid(t) ==
    render_attractor_path(initial_positions[t], centre, max_iter, draw_after,
                          scale, resolution, attractor).grid

\* C8: for the initial points drawn, the grid returned by render_attractor is
\* the element-wise u32 sum of the trajectories' grids, whatever the order in
\* which the trajectories were run, the pairs the reduction added and the
\* identities it inserted.
ReductionOrderIndependent ==
    (call = "render_attractor" /\ status = "returned") =>
        /\ pixels.dim = <<resolution[1], resolution[0]>>
        /\ \A i \in DOMAIN pixels.data :
               pixels.data[i] =
                   SumOver([t \in 1 .. num_samples |-> PathGrid(t).data[i]],
                           1 .. num_samples) % Word

\* two trajectories of different grids, reduced together with an identity
TwoPathsReduced ==
    /\ call = "render_attractor" /\ status = "returned"
    /\ num_samples = 2 /\ identities > 0
    /\ PathGrid(1) # PathGrid(2)
    /\ PathGrid(1) # Zeros(pixels.dim) /\ PathGrid(2) # Zeros(pixels.dim)

Total(grid) == SumOver(grid.data, DOMAIN grid.data)

\* C9: the pixels of the grid returned by render_attractor sum to at most
\* max_iter * num_samples.
HitsBounded ==
    (call = "render_attractor" /\ status = "returned") =>
        Total(pixels) <= max_iter * num_samples

\* every step of every trajectory was counted
EveryStepCounted ==
    /\ call = "render_attractor" /\ status = "returned"
    /\ num_samples > 0 /\ max_iter > 0
    /\ Total(pixels) = max_iter * num_samples

(***************************************************************************)
(* Properties of the coordinate maps.                                      *)
(***************************************************************************)
Near(a, b) == a - b \in -1 .. 1
RoundTrip == call = "pixel_mapper" /\ status = "returned" /\ pixel.some /\ FLt(Zero, scale)

\* C10 as stated: the pixel centre of (x, y), sent through the inverse
\* mapper, is Some([x', y']) with |x' - x| <= 1 and |y' - y| <= 1.
RoundTripSameRow ==
    RoundTrip => hit.some /\ Near(hit.x, pixel.x) /\ Near(hit.y, pixel.y)

\* C10, amended: for scale > 0 the pixel centre of (x, y), sent through the
\* inverse mapper, is Some([x', y']) with |x' - x| <= 1 and
\* |y' - (h - 1 - y)| <= 1: the inverse mapper counts rows from the top.
RoundTripMirroredRow ==
    RoundTrip => /\ hit.some
                 /\ Near(hit.x, pixel.x)
                 /\ Near(hit.y, resolution[1] - 1 - pixel.y)

\* the round trip of a pixel of the last row of a grid of three rows
RoundTripOfLastRow ==
    RoundTrip /\ resolution[1] = 3 /\ pixel.y = 2 /\ hit.some /\ hit.y = 0

(***************************************************************************)
(* The upper edge of the frame of the inverse mapper.                      *)
(***************************************************************************)
\* the coordinates the closure computes for the point
ComputedX == pixel_x(centre, scale, resolution, point)
ComputedY == pixel_y(centre, scale, resolution, point)
Mapped == call = "pixel_mapper" /\ status = "returned"
Within(v, res) == FGe(v, Zero) /\ FLt(v, FromInt(res))

\* C11: on each axis a point whose computed coordinate is exactly
\* resolution - 1 (the other coordinate in the frame) is accepted with that
\* index, and a point whose computed coordinate is exactly resolution is
\* rejected: the test is x < x_res, not x <= x_res.
UpperEdgeStrict ==
    Mapped =>
        /\ ComputedX = FromInt(resolution[0]) => hit = None
        /\ ComputedY = FromInt(resolution[1]) => hit = None
        /\ (/\ resolution[0] >= 1
            /\ ComputedX = FromInt(resolution[0] - 1)
            /\ Within(ComputedY, resolution[1]))
               => hit.some /\ hit.x = resolution[0] - 1
        /\ (/\ resolution[1] >= 1
            /\ ComputedY = FromInt(resolution[1] - 1)
            /\ Within(ComputedX, resolution[0]))
               => hit.some /\ hit.y = resolution[1] - 1

\* a point on the last column and one row below the last row is rejected
LastColumnBelowLastRow ==
    /\ Mapped
    /\ resolution[0] = 3
    /\ ComputedX = FromInt(resolution[0] - 1)
    /\ ComputedY = FromInt(resolution[1])
    /\ hit = None

(***************************************************************************)
(* The initial points of the histogram renderer.                           *)
(***************************************************************************)
Generated == call = "render_attractor" /\ status # "called"

\* C12: with radius = 0 the call does not abort and every one of the
\* num_samples initial points equals start.
ZeroRadiusStartsAtStart ==
    (Generated /\ radius = Zero) =>
        /\ status # "panicked"
        /\ Len(initial_positions) = num_samples
        /\ \A t \in DOMAIN initial_positions : initial_positions[t] = start

\* the squared distance of q from start is at most radius squared (exactly,
\* in the units of the format)
InDisk(q) ==
    /\ IsFin(q.real) /\ IsFin(q.imag)
    /\ (q.real[2] - start.real[2]) * (q.real[2] - start.real[2])
           + (q.imag[2] - start.imag[2]) * (q.imag[2] - start.imag[2])
       <= radius[2] * radius[2]

\* C13: generate_initial_positions returns num_samples points, and for
\* radius > 0 each of them is at a distance of at most radius from start.
InitialPointsInDisk ==
    (Generated /\ FLt(Zero, radius)) =>
        /\ Len(initial_positions) = num_samples
        /\ \A t \in DOMAIN initial_positions : InDisk(initial_positions[t])

(***************************************************************************)
(* The passes of the loop of render_attractor_path.                        *)
(***************************************************************************)
InPath == call = "render_attractor_path"

\* the grid with one more hit at the pixel [x, y] of the mapper, if any
Incremented(grid, at) ==
    IF at.some
    THEN [grid EXCEPT !.data[at.y * resolution[0] + at.x + 1] = @ + 1]
    ELSE grid

\* the position after k applications of the map to the start of the path
RECURSIVE Orbit(_)
Orbit(k) == IF k = 0 THEN start ELSE iterate(attractor, Orbit(k - 1))

\* C14: a trajectory applies the map once per pass, max_iter times in all,
\* whether or not the position has diverged or left the frame; a pass with
\* n < draw_after leaves the grid alone, a pass with n >= draw_after adds one
\* to the pixel the new position maps to, if any, and to no other; the grid
\* returned holds at most max(0, max_iter - draw_after) hits.
PassesOfPath ==
    /\ [][(InPath /\ status = "running") =>
              IF n < max_iter
              THEN /\ z' = iterate(attractor, z)
                   /\ n' = n + 1
                   /\ status' = "running"
                   /\ pixels' = IF n < draw_after THEN pixels
                                 ELSE Incremented(pixels,
                                          pixel_mapper(centre, scale, resolution, z'))
              ELSE /\ status' = "returned"
                   /\ UNCHANGED <<z, n, pixels>>]_vars
    /\ [](InPath => /\ n \in 0 .. max_iter
                    /\ z = Orbit(n)
                    /\ status = "returned" => n = max_iter
                    /\ Total(pixels) <= (IF max_iter > draw_after
                                          THEN max_iter - draw_after ELSE 0))

\* a trajectory that has diverged, with skipped passes, recorded passes and
\* passes that left the frame
DivergedPathReturned ==
    /\ InPath /\ status = "returned"
    /\ n = MaxIter /\ draw_after = 1
    /\ ~IsFin(z.real)
    /\ Total(pixels) \in 1 .. (max_iter - draw_after - 1)

(***************************************************************************)
(* The scene of the example.                                               *)
(***************************************************************************)
CentrePixel ==
    /\ call = "render_fractal" /\ resolution[0] = 21 /\ status = "returned"
    /\ pixel = Some(10, 10)

\* C15: Mandelbrot, centre (-0.75, 0), scale 3, resolution [21, 21],
\* max_iter 100, one sample per pixel: the pixel of row 10, column 10 is
\* sampled at (-0.75, 0) and holds exactly 100.
ScenarioCentreNeverEscapes ==
    CentrePixel =>
        /\ p = Complex(Lit(-3, 4), Zero)
        /\ pixels.data[10 * 21 + 10 + 1] = 100

\* the sample loop of the centre pixel ran its 100 passes
CentrePixelRanToLimit ==
    CentrePixel /\ n = 100 /\ Len(trace) = 100 /\ FLt(norm_sqr(z), Four)

(***************************************************************************)
(* Calls that break a precondition.                                        *)
(***************************************************************************)
ZeroResolution == resolution[0] = 0 \/ resolution[1] = 0

\* C16: a call of render_fractal with a zero width, a zero height or a zero
\* supersample factor, and a call of render_attractor with a zero resolution
\* component, stops at the boundary: it never starts the work on the rows
\* or trajectories and never returns a grid.
PreconditionsFailFast ==
    /\ (call = "render_fractal" /\ (ZeroResolution \/ samples_per_pixel = 0))
           => status \in {"called", "panicked"}
    /\ (call = "render_attractor" /\ ZeroResolution)
           => status \in {"called", "panicked"}

ValidFractalCall ==
    /\ call \in FractalCalls
    /\ resolution[0] >= 1 /\ resolution[1] >= 1
    /\ samples_per_pixel >= 1

ValidAttractorCall ==
    /\ call = "render_attractor"
    /\ resolution[0] >= 1 /\ resolution[1] >= 1
    /\ FLt(Zero, radius)

\* every row has been written to its last column
Complete == \A y \in Rows : y \in DOMAIN cursor /\ cursor[y] = resolution[0]

\* C18: a render with a positive resolution, a supersample factor >= 1 and
\* a radius > 0 runs to completion: at any time it is still at work, with a
\* step left to take, or it has returned, and then every row is finished
\* and every trajectory is reduced into the grid; it never stops otherwise.
RenderCompletes ==
    /\ ValidFractalCall =>
           \/ status \in {"called", "running"}
           \/ status = "returned" /\ Complete
    /\ ValidAttractorCall =>
           \/ status \in {"called", "running"}
           \/ status = "returned" /\ pending = {} /\ HasShape(pixels)

(***************************************************************************)
(* The cells written by the workers of the grid renderers.                 *)
(***************************************************************************)
\* the cells of row y of the grid, as indices of its row-major data
CellsOfRow(y) == {y * resolution[0] + x + 1 : x \in Columns}

\* the rows partition the grid
RowsPartition ==
    /\ DOMAIN cursor = Rows
    /\ \A y1, y2 \in Rows : y1 # y2 => CellsOfRow(y1) \cap CellsOfRow(y2) = {}
    /\ UNION {CellsOfRow(y) : y \in Rows} = DOMAIN pixels.data

\* the worker of row y writes the next cell of its row and no other cell
WritesOwnCell(y) ==
    /\ cursor[y] < resolution[0]
    /\ cursor' = [cursor EXCEPT ![y] = @ + 1]
    /\ DOMAIN pixels'.data = DOMAIN pixels.data
    /\ \A i \in DOMAIN pixels.data :
           i # y * resolution[0] + cursor[y] + 1 => pixels'.data[i] = pixels.data[i]

\* C19: the rows handed to the workers are pairwise disjoint and cover the
\* h * w cells; every step of a worker writes the next cell of its own row
\* and leaves every other cell as it was, in any interleaving; the call
\* returns when each row has been written to its end, so every cell has
\* been written exactly once.
EachCellWrittenOnce ==
    /\ []((call \in FractalCalls /\ status \in {"running", "returned"}) =>
              /\ RowsPartition
              /\ \A y \in Rows : cursor[y] \in 0 .. resolution[0]
              /\ status = "returned" => \A y \in Rows : cursor[y] = resolution[0])
    /\ [][(call \in FractalCalls /\ status = "running") =>
              \/ status' = "panicked" /\ pixels' = pixels /\ cursor' = cursor
              \/ status' = "returned" /\ pixels' = pixels /\ cursor' = cursor
              \/ status' = "running" /\ \E y \in Rows : WritesOwnCell(y)]_vars

\* a grid of 2 x 2 is returned with every cell written to a count above 0
WholeGridWritten ==
    /\ call = "render_fractal" /\ status = "returned"
    /\ resolution[0] = 2 /\ resolution[1] = 2
    /\ \A i \in DOMAIN pixels.data : pixels.data[i] > 0

(***************************************************************************)
(* The histogram as a count of steps.                                      *)
(***************************************************************************)
\* the position of trajectory t after k applications of the map
RECURSIVE PositionAfter(_, _)
PositionAfter(t, k) ==
    IF k = 0 THEN initial_positions[t]
    ELSE iterate(attractor, PositionAfter(t, k - 1))

\* the pairs (t, n), draw_after <= n < max_iter, whose position after step n
\* the inverse mapper sends to [x, y]
StepsOnPixel(y, x) ==
    {tn \in (1 .. num_samples) \X (0 .. max_iter - 1) :
        /\ tn[2] >= draw_after
        /\ pixel_mapper(centre, scale, resolution, PositionAfter(tn[1], tn[2] + 1))
               = Some(x, y)}

\* C20: every pixel of the grid returned by render_attractor holds the
\* number of pairs (trajectory, recorded step) whose position maps to it:
\* no hit is lost or counted twice.
HistogramCountsSteps ==
    (call = "render_attractor" /\ status = "returned") =>
        \A y \in Rows, x \in Columns : At(y, x) = Cardinality(StepsOnPixel(y, x))

(***************************************************************************)
(* The indices returned by the inverse mapper.                             *)
(***************************************************************************)
\* None, or a column below w and a row below h
InGrid(at) ==
    at.some => at.x \in 0 .. resolution[0] - 1 /\ at.y \in 0 .. resolution[1] - 1

\* C21: for a resolution [w, h] with w, h >= 1, square or not, the mapper
\* sends every position of a trajectory, far-away and infinite ones
\* included, to None or to Some([x, y]) with 0 <= x < w and 0 <= y < h, and
\* the loop never aborts on an index outside the grid.
MapperStaysInGrid ==
    InPath =>
        /\ status # "panicked"
        /\ (resolution[0] >= 1 /\ resolution[1] >= 1) =>
               InGrid(pixel_mapper(centre, scale, resolution, z))

\* on a grid wider than tall a trajectory was recorded, then left the frame
\* for good: its last position is not finite
WidePathLeftFrame ==
    /\ InPath /\ status = "returned"
    /\ resolution[0] = 2 /\ resolution[1] = 1
    /\ draw_after = 0 /\ n = MaxIter
    /\ ~IsFin(z.real)
    /\ pixel_mapper(centre, scale, resolution, z) = None
    /\ Total(pixels) \in 1 .. max_iter - 1

(***************************************************************************)
(* The viewport of the inverse mapper.                                     *)
(***************************************************************************)
\* half of scale * w / h and half of scale
ViewHalfWidth ==
    FDiv(FMul(scale, FDiv(FromInt(resolution[0]), FromInt(resolution[1]))), FromInt(2))
ViewHalfHeight == FDiv(scale, FromInt(2))

\* the point lies in the rectangle of the viewport
InViewport(q) ==
    /\ FGe(ViewHalfWidth, FAbs(FSub(q.real, centre.real)))
    /\ FGe(ViewHalfHeight, FAbs(FSub(q.imag, centre.imag)))

\* C22: whenever the inverse mapper returns Some for a point, the point
\* lies inside the viewport: |re - centre.re| <= (scale * w / h) / 2 and
\* |im - centre.im| <= scale / 2.
AcceptedInsideViewport == (Mapped /\ hit.some) => InViewport(point)

(***************************************************************************)
(* The forward map of the grid renderer.                                   *)
(***************************************************************************)
\* a state in which ForwardMap has chosen a pixel and computed its point
ForwardMapped == call = "pixel_mapper" /\ status # "called" /\ pixel.some

\* centre + ((x + 0.5 - w/2) * x_step, (y + 0.5 - h/2) * y_step)
\* with x_step = scale * (w/h) / w and y_step = scale / h
CentreOfPixel(y, x) ==
    LET w == FromInt(resolution[0])
        h == FromInt(resolution[1])
        xs == FDiv(FMul(scale, FDiv(w, h)), w)
        ys == FDiv(scale, h)
    IN  Complex(
            FAdd(centre.real,
                 FMul(FSub(FAdd(FromInt(x), Half), FDiv(w, FromInt(2))), xs)),
            FAdd(centre.imag,
                 FMul(FSub(FAdd(FromInt(y), Half), FDiv(h, FromInt(2))), ys)))

\* C23: the grid renderer samples pixel (column x, row y) at
\* centre + ((x + 0.5 - w/2) * x_step, (y + 0.5 - h/2) * y_step), the one
\* sample of a pixel rendered with one sample per pixel; rows are not
\* flipped: under a positive scale a lower row is sampled at a strictly
\* smaller imaginary part than any higher row; and the sampled point lies
\* inside the viewport rectangle centred at centre.
ForwardMapOfPixel ==
    ForwardMapped =>
        /\ point = CentreOfPixel(pixel.y, pixel.x)
        /\ sub_sample(centre, scale, resolution, 1, pixel.y, pixel.x, 0, 0) = point
        /\ FLt(Zero, scale) =>
               \A y2 \in pixel.y + 1 .. resolution[1] - 1 :
                   FLt(point.imag,
                       pixel_center(centre, scale, resolution, y2, pixel.x).imag)
        /\ InViewport(point)

\* the first row of a grid of three rows and two columns, mapped forward
\* under a positive scale
FirstOfThreeRowsMapped ==
    /\ ForwardMapped
    /\ FLt(Zero, scale)
    /\ resolution[0] = 2 /\ resolution[1] = MaxMapRes
    /\ pixel = Some(1, 0)
    /\ FLt(point.imag, centre.imag)

(***************************************************************************)
(* The inverse map of the histogram renderer.                              *)
(***************************************************************************)
\* [trunc(((p.re - centre.re + half_width) / width) * (w - 1)),
\*  trunc(((half_height - (p.im - centre.im)) / height) * (h - 1))]
IndexOf(q) ==
    LET w == FromInt(resolution[0])
        h == FromInt(resolution[1])
        width == FMul(scale, FDiv(w, h))
        height == scale
    IN  Some(ToUsize(FMul(FDiv(FAdd(FSub(q.real, centre.real),
                                    FDiv(width, FromInt(2))), width),
                          FSub(w, One))),
             ToUsize(FMul(FDiv(FSub(FDiv(height, FromInt(2)),
                                    FSub(q.imag, centre.imag)), height),
                          FSub(h, One))))

\* the points the mapper accepts in the current viewport
Accepted == {q \in Points : pixel_mapper(centre, scale, resolution, q).some}

\* C24: for an accepted point the inverse mapper returns the index
\* [trunc(((p.re - centre.re + half_width) / width) * (w - 1)),
\*  trunc(((half_height - (p.im - centre.im)) / height) * (h - 1))]; rows are
\* flipped: among accepted points a larger imaginary part never yields a
\* larger row index and a larger real part never yields a smaller column
\* index.
InverseMapFlipsRows ==
    (Mapped /\ hit.some) =>
        /\ hit = IndexOf(point)
        /\ \A q \in Accepted :
              LET at == pixel_mapper(centre, scale, resolution, q)
              IN  /\ FLt(point.imag, q.imag) => at.y <= hit.y
                  /\ FLt(point.real, q.real) => at.x >= hit.x

\* an accepted point of the last row and first column, with another accepted
\* point above it in the first row and one to its right in the last column
LowerPointInLastRow ==
    /\ Mapped /\ hit.some
    /\ resolution[0] = MaxMapRes /\ resolution[1] = MaxMapRes
    /\ hit = Some(0, MaxMapRes - 1)
    /\ \E q \in Accepted :
          /\ FLt(point.imag, q.imag)
          /\ pixel_mapper(centre, scale, resolution, q).y = 0
    /\ \E q \in Accepted :
          /\ FLt(point.real, q.real)
          /\ pixel_mapper(centre, scale, resolution, q).x = MaxMapRes - 1

(***************************************************************************)
(* The escape test of the escape-radius kinds.                             *)
(***************************************************************************)
StartsAtProbe == fractal.tag \in {"Julia", "Clifford", "DeJong", "Tinkerbell"}
EscapeKind == fractal.tag # "Newton"

\* the state z after k steps of the recurrence of the current call
StateAfter(k) ==
    IF k = 0 THEN (IF StartsAtProbe THEN p ELSE Origin) ELSE trace[k].z

\* C25: every escape-radius kind tests for escape before each step: the
\* returned n is the smallest number of steps after which the squared norm
\* of the state is at least 4, or max_iter when it is below 4 after each of
\* 0 .. max_iter - 1 steps; a kind that starts from the probe point returns
\* 0 when |p|^2 >= 4, and a kind that starts from z = 0 returns at least 1
\* when max_iter >= 1.
EscapeTestedBeforeStep ==
    (pc = "done" /\ EscapeKind) =>
        /\ Len(trace) = n
        /\ n <= max_iter
        /\ \A k \in 0 .. n - 1 : FLt(norm_sqr(StateAfter(k)), Four)
        /\ n < max_iter => FGe(norm_sqr(StateAfter(n)), Four)
        /\ (StartsAtProbe /\ FGe(norm_sqr(p), Four)) => n = 0
        /\ (~StartsAtProbe /\ max_iter >= 1) => n >= 1

\* a call that escaped after two or more steps, before the limit
EscapedBeforeLimit ==
    /\ pc = "done" /\ EscapeKind
    /\ n >= 2 /\ n < max_iter
    /\ FGe(norm_sqr(z), Four)

(***************************************************************************)
(* One call of Complex::powi.                                              *)
(***************************************************************************)
InitPowi ==
    /\ call = "powi"
    /\ z \in Points
    /\ n \in 0 .. MaxPower
    /\ status = "called"
    /\ centre = Origin /\ scale = Zero /\ resolution = [i \in {0, 1} |-> 0]
    /\ overflow_checks = FALSE /\ pixels = Zeros(<<0, 0>>)
    /\ fractal = Plain("Multibrot") /\ max_iter = 0
    /\ p = Origin /\ z_old = Origin /\ dz = Origin /\ pc = "idle" /\ trace = << >>
    /\ NoFractalRender /\ NoAttractor /\ NoMapper
    /\ returned = << >>

\* self.powi(n)
CallPowi ==
    /\ call = "powi"
    /\ status = "called"
    /\ returned' = <<powi(z, n)>>
    /\ status' = "returned"
    /\ UNCHANGED <<call, centre, scale, resolution, overflow_checks, pixels>>
    /\ UNCHANGED <<sampleVars, fractalVars, attractorVars, mapperVars>>

NextPowi ==
    \/ CallPowi

SpecPowi == InitPowi /\ [][NextPowi]_vars

\* both components are whole numbers
IntegerValued(q) ==
    /\ IsFin(q.real) /\ q.real[2] % Prec = 0
    /\ IsFin(q.imag) /\ q.imag[2] % Prec = 0

\* C26: Complex::powi is the integer power by repeated multiplication:
\* powi(0) is 1 + 0i for every z, zero included, powi(1) is z, powi(n + 1)
\* is powi(n) * z for n >= 1, and so over integer-valued components
\* powi(m + k) = powi(m) * powi(k).
PowiIsRepeatedProduct ==
    (call = "powi" /\ status = "returned") =>
        /\ n = 0 => returned[1] = Complex(One, Zero)
        /\ n = 1 => returned[1] = z
        /\ n >= 2 => returned[1] = mul(powi(z, n - 1), z)
        /\ IntegerValued(z) =>
               \A m \in 0 .. n : returned[1] = mul(powi(z, m), powi(z, n - m))

\* the greatest power of 2 + 2i
PowerOfTwoPlusTwoI ==
    /\ call = "powi" /\ status = "returned"
    /\ z = Complex(FromInt(2), FromInt(2))
    /\ n = MaxPower
    /\ IntegerValued(returned[1])

(***************************************************************************)
(* The divisions of Fractal::sample.  Only the Newton kind divides:        *)
(* dz = f / df with df = 3 z^2, once in every pass of its loop.            *)
(***************************************************************************)
\* df of the pass that made the k-th entry of the trace
DivisorOfPass(k) ==
    LET before == IF k = 1 THEN p ELSE trace[k - 1].z
    IN  mul(mul(Complex(FromInt(3), Zero), before), before)

\* C27: no division performed by Fractal::sample has a divisor of zero
\* norm; in particular Newton never divides by df = 3 z^2 = 0, also for the
\* probe point (0, 0).
NoDivisionByZeroNorm ==
    (call = "sample" /\ fractal.tag = "Newton") =>
        \A k \in 1 .. Len(trace) : norm_sqr(DivisorOfPass(k)) # Zero

(***************************************************************************)
(* Degenerate calls of render_attractor.                                   *)
(***************************************************************************)
\* the grid of resolution[1] rows and resolution[0] columns, every pixel 0
AllZero ==
    [dim |-> <<resolution[1], resolution[0]>>,
     data |-> [i \in 1 .. resolution[1] * resolution[0] |-> 0]]

\* C28: with draw_after >= max_iter the grid returned by render_attractor is
\* all zero and of shape (resolution[1], resolution[0]), whatever the
\* attractor, the viewport and the initial points.
NothingDrawnAfterLimit ==
    (call = "render_attractor" /\ status = "returned" /\ draw_after >= max_iter) =>
        pixels = AllZero

\* two trajectories of MaxIter steps, none of them drawn, of which a
\* position lies in the frame
SkippedStepsInFrame ==
    /\ call = "render_attractor" /\ status = "returned"
    /\ draw_after = MaxIter /\ max_iter = MaxIter
    /\ num_samples = MaxTraj
    /\ resolution[0] = MaxRes /\ resolution[1] = MaxRes
    /\ \E t \in 1 .. num_samples, k \in 1 .. max_iter :
          pixel_mapper(centre, scale, resolution, PositionAfter(t, k)).some
    /\ pixels = AllZero

\* C29: with num_samples = 0 render_attractor generates no initial position
\* and runs no trajectory, and it returns the identity of the reduction: the
\* all-zero grid of shape (resolution[1], resolution[0]).
NoTrajectoryReturnsIdentity ==
    /\ [][(call = "render_attractor" /\ num_samples = 0) =>
              ~(\E t \in 1 .. MaxTraj : RenderAttractorPath(t))]_vars
    /\ []((call = "render_attractor" /\ num_samples = 0) =>
              /\ status # "panicked"
              /\ initial_positions = << >> /\ pending = {}
              /\ \A g \in DOMAIN partials : g = AllZero
              /\ status = "returned" => pixels = AllZero)

\* a call without trajectories has returned a grid wider than high
EmptyHistogramReturned ==
    /\ call = "render_attractor" /\ status = "returned"
    /\ num_samples = 0 /\ max_iter = MaxIter /\ draw_after = 0
    /\ resolution[0] = MaxRes /\ resolution[1] = 1
    /\ identities = 1
    /\ pixels = AllZero

(***************************************************************************)
(* Multibrot of power 2 against Mandelbrot.                                *)
(***************************************************************************)
\* the whole call of the Mandelbrot kind for the probe point and the limit
\* of the current call
MandelbrotRun ==
    RunToReturn(Plain("Mandelbrot"), p, max_iter, Enter(Plain("Mandelbrot"), p))

\* C30: Multibrot { power: 2 } is equivalent to Mandelbrot: for every probe
\* point and every max_iter the call visits the states z that Mandelbrot
\* visits, in the same order, and returns the same count.
MultibrotTwoIsMandelbrot ==
    (call = "sample" /\ fractal.tag = "Multibrot" /\ fractal.power = 2) =>
        /\ Len(trace) <= Len(MandelbrotRun.trace)
        /\ \A k \in 1 .. Len(trace) : trace[k].z = MandelbrotRun.trace[k].z
        /\ pc = "done" =>
               /\ n = MandelbrotRun.n
               /\ Len(trace) = Len(MandelbrotRun.trace)

\* a call of Multibrot { power: 2 } that escaped after three or more steps,
\* before the limit
MultibrotTwoEscaped ==
    /\ call = "sample" /\ fractal.tag = "Multibrot" /\ fractal.power = 2
    /\ pc = "done"
    /\ n >= 3 /\ n < max_iter
    /\ z # p

=============================================================================
